---- MODULE Spec2Model ----
(***************************************************************************)
(* State-machine model of src/src/api.rs: the JSON API of the sensor       *)
(* frontend (login, logout, list, add, send) behind the AuthedUser         *)
(* request guard.                                                          *)
(*                                                                         *)
(* One step of the model is one HTTP request served from start to end:     *)
(* route matching by method and path, the AuthedUser guard, the handler    *)
(* body, and the cookie changes the response carries back to the client.   *)
(* A request carries the cookie jar of the client that sends it, and the   *)
(* client applies the response's Set-Cookie changes to its jar.            *)
(* Requests are those that match the route's format and deserialise into   *)
(* the handler's data type; the DbConn and InfoSet guards succeed.         *)
(***************************************************************************)
EXTENDS Integers, Sequences, FiniteSets, TLC

\* ------------------------------------------------------------------ bounds
\* Largest number of sensor-node rows the store grows to.
MaxRows == 2

\* ------------------------------------------------------------ input sets
Clients == {"c1", "c2"}
Usernames == {"alice", "bob"}
Passwords == {"pw1", "pw2"}
NodeIds == {1, 2}
NodeNames == {"Temp"}
NodeUnits == {"C", "F"}
Contents == {"ping", "reset"}
Dests == {7}

\* A bcrypt hash string of password p, and a stored value that is no hash.
BcryptHash(p) == <<"$2b$", p>>
MalformedHash == <<"plain", "pw1">>
StoredPasswords == {BcryptHash(p) : p \in Passwords} \cup {MalformedHash}

\* The users tables the database can hold: username is unique, so a table
\* is a function from the usernames present to their stored password.
UserTables == UNION {[S -> StoredPasswords] : S \in SUBSET Usernames}

\* struct NewXbee / the rows of the sensor-node table.
Xbees == [node_id : NodeIds, name : NodeNames, units : NodeUnits]
\* struct Message
Messages == [content : Contents, dest : Dests]
\* struct Login
Logins == [user : Usernames, pass : Passwords]

NoXbee == [node_id |-> 0, name |-> "-", units |-> "-"]
NoMessage == [content |-> "-", dest |-> 0]
NoLogin == [user |-> "-", pass |-> "-"]

\* The cookie jar of a client, as far as the cookie named "auth" goes:
\*   "none"   no cookie named auth
\*   "valid"  the private (encrypted and signed) cookie the server issued
\*   "forged" a cookie named auth the server did not issue
JarStates == {"none", "valid", "forged"}

VARIABLES
    users,      \* the users table: username -> stored password hash
    xbees,      \* the sensor-node rows, in insertion order
    jar,        \* jar[c]: the auth cookie client c holds
    req,        \* the request served last (op, client, cookie it carried, data)
    handler,    \* the handler that produced the last response
    status,     \* HTTP status of the last response
    body,       \* JSON body of the last response
    lastAuth    \* history: per client, the most recent of {login with correct
                \* credentials, logout}, "none" before either

vars == <<users, xbees, jar, req, handler, status, body, lastAuth>>

\* -------------------------------------------------------------- cookies
\* Cookies::get_private("auth"): Some only for a cookie that decrypts.
get_private(j) == j = "valid"

\* Cookies::add_private(Cookie::new("auth", "true"))
add_private(j) == "valid"

\* Cookies::remove_private(Cookie::new("auth", "true"))
remove_private(j) == "none"

\* ---------------------------------------------------------------- guard
from_request_accept_all(j) == "Success"

\* AuthedUser::from_request
from_request(j) == IF get_private(j) THEN "Success" ELSE "Forward"

\* --------------------------------------------------------------- routes
\* Rank of a route declared without rank: below every explicit rank here.
DefaultRank == -3

Routes_no_fallback ==
    { [name |-> "send",         method |-> "POST", path |-> "/api/send",   rank |-> DefaultRank, authed |-> TRUE],
      [name |-> "add",          method |-> "POST", path |-> "/api/add",    rank |-> DefaultRank, authed |-> TRUE],
      [name |-> "list_authed",  method |-> "GET",  path |-> "/api/list",   rank |-> DefaultRank, authed |-> TRUE],
      [name |-> "login",        method |-> "POST", path |-> "/api/login",  rank |-> DefaultRank, authed |-> FALSE],
      [name |-> "logout",       method |-> "GET",  path |-> "/api/logout", rank |-> DefaultRank, authed |-> FALSE] }

\* The routes of the module: the #[get]/#[post] attributes and whether the
\* handler takes an AuthedUser.
Routes ==
    { [name |-> "send",         method |-> "POST", path |-> "/api/send",   rank |-> DefaultRank, authed |-> TRUE],
      [name |-> "add",          method |-> "POST", path |-> "/api/add",    rank |-> DefaultRank, authed |-> TRUE],
      [name |-> "list_authed",  method |-> "GET",  path |-> "/api/list",   rank |-> DefaultRank, authed |-> TRUE],
      [name |-> "list_invalid", method |-> "GET",  path |-> "/api/list",   rank |-> 2,           authed |-> FALSE],
      [name |-> "login",        method |-> "POST", path |-> "/api/login",  rank |-> DefaultRank, authed |-> FALSE],
      [name |-> "logout",       method |-> "GET",  path |-> "/api/logout", rank |-> DefaultRank, authed |-> FALSE] }

Matching(method, path) == {r \in Routes : r.method = method /\ r.path = path}

\* The matching routes are tried in rank order; a route whose guard
\* forwards is skipped; with no route left the request is not found.
RECURSIVE Dispatch(_, _)
Dispatch(rs, j) ==
    IF rs = {} THEN "not_found"
    ELSE LET r == CHOOSE r \in rs : \A q \in rs : r.rank <= q.rank
         IN  IF (~r.authed) \/ from_request(j) = "Success"
             THEN r.name
             ELSE Dispatch(rs \ {r}, j)

Method(op) == IF op \in {"list", "logout"} THEN "GET" ELSE "POST"
Path(op) == "/api/" \o op

\* ------------------------------------------------------------- database
\* bcrypt::verify(pass, stored): Ok(true), Ok(false), or Err when the
\* stored value is no bcrypt hash.
bcrypt_verify(pass, stored) ==
    IF stored[1] # "$2b$" THEN "Err"
    ELSE IF stored[2] = pass THEN "OkTrue" ELSE "OkFalse"

\* users.filter(username.eq(&login.user)).get_result::<User>(&*conn):
\* the row, Error::NotFound, or another error when the database fails.
get_result(tbl, name, dbErr) ==
    IF dbErr THEN "Err"
    ELSE IF name \in DOMAIN tbl THEN "Ok" ELSE "NotFound"

\* db::create_xbee(&conn, node_id, &name, &units): inserts one row; the id
\* is not checked against the rows present.
create_xbee(store, x) ==
    Append(store, [node_id |-> x.node_id, name |-> x.name, units |-> x.units])

\* InfoSet::nodes(): one entry per node of the store.
info_nodes(store) ==
    [i \in 1..Len(store) |->
        [uuid |-> store[i].node_id, name |-> store[i].name, units |-> store[i].units]]

\* ------------------------------------------------------- login, in parts
login_outcome_err_passes(tbl, l, dbErr) ==
    LET res == get_result(tbl, l.user, dbErr)
    IN  IF res = "Ok"
        THEN IF bcrypt_verify(l.pass, tbl[l.user]) # "OkFalse"
             THEN "success" ELSE "invalid"
        ELSE IF res = "NotFound" THEN "not_found" ELSE "db_error"

login_outcome_hides_user(tbl, l, dbErr) ==
    LET res == get_result(tbl, l.user, dbErr)
    IN  IF res = "Ok"
        THEN IF bcrypt_verify(l.pass, tbl[l.user]) = "OkTrue"
             THEN "success" ELSE "invalid"
        ELSE IF res = "NotFound" THEN "invalid" ELSE "db_error"

login_outcome_err_as_missing(tbl, l, dbErr) ==
    LET res == get_result(tbl, l.user, dbErr)
    IN  IF res = "Ok"
        THEN IF bcrypt_verify(l.pass, tbl[l.user]) = "OkTrue"
             THEN "success" ELSE "invalid"
        ELSE "not_found"

\* The arm of login's match (and of the if let inside it) a request takes.
login_outcome(tbl, l, dbErr) ==
    LET res == get_result(tbl, l.user, dbErr)
    IN  IF res = "Ok"
        THEN IF bcrypt_verify(l.pass, tbl[l.user]) = "OkTrue"
             THEN "success" ELSE "invalid"
        ELSE IF res = "NotFound" THEN "not_found" ELSE "db_error"

\* The json! of each arm.
login_json(o) ==
    CASE o = "success"   -> [success |-> TRUE]
      [] o = "invalid"   -> [error |-> "Invalid login credentials.", success |-> FALSE]
      [] o = "not_found" -> [error |-> "No user with that name found.", success |-> FALSE]
      [] OTHER           -> [error |-> "Error getting information from database.", success |-> FALSE]

login_cookies_never(j, o) == j

login_cookies_reset(j, o) ==
    IF o = "success" THEN add_private(j) ELSE remove_private(j)

\* The cookie jar after login: only the success arm adds the cookie.
login_cookies(j, o) == IF o = "success" THEN add_private(j) ELSE j

logout_cookies_keep(j) == j

\* The cookie jar after logout.
logout_cookies(j) == remove_private(j)

\* ------------------------------------------------------------- handlers
\* Each handler takes the request r and sets the response, the client's
\* cookie jar and the tables.
send_stores(r) ==
    /\ handler' = "send"
    /\ status' = 200
    /\ body' = [content |-> r.message.content, success |-> TRUE]
    /\ xbees' = Append(xbees, [node_id |-> r.message.dest, name |-> r.message.content, units |-> "-"])
    /\ UNCHANGED <<users, jar>>

send(r) ==
    /\ handler' = "send"
    /\ status' = 200
    /\ body' = [content |-> r.message.content, success |-> TRUE]
    /\ UNCHANGED <<users, xbees, jar>>

add_unique(r) ==
    LET dup == \E i \in 1..Len(xbees) : xbees[i].node_id = r.xbee.node_id
    IN  /\ handler' = "add"
        /\ status' = 200
        /\ xbees' = IF dup THEN xbees ELSE create_xbee(xbees, r.xbee)
        /\ body' = [success |-> ~dup]
        /\ UNCHANGED <<users, jar>>

add(r) ==
    /\ handler' = "add"
    /\ status' = 200
    /\ xbees' = create_xbee(xbees, r.xbee)
    /\ body' = [success |-> TRUE]
    /\ UNCHANGED <<users, jar>>

list_authed(r) ==
    /\ handler' = "list_authed"
    /\ status' = 200
    /\ body' = [nodes |-> info_nodes(xbees), success |-> TRUE]
    /\ UNCHANGED <<users, xbees, jar>>

list_invalid(r) ==
    /\ handler' = "list_invalid"
    /\ status' = 200
    /\ body' = [success |-> FALSE]
    /\ UNCHANGED <<users, xbees, jar>>

login(r) ==
    LET o == login_outcome(users, r.login, r.dbErr)
    IN  /\ handler' = "login"
        /\ status' = 200
        /\ body' = login_json(o)
        /\ jar' = [jar EXCEPT ![r.client] = login_cookies(jar[r.client], o)]
        /\ UNCHANGED <<users, xbees>>

logout(r) ==
    /\ handler' = "logout"
    /\ status' = 200
    /\ body' = [success |-> TRUE]
    /\ jar' = [jar EXCEPT ![r.client] = logout_cookies(jar[r.client])]
    /\ UNCHANGED <<users, xbees>>

\* No route took the request: the framework answers 404 Not Found.
NotFoundPage == [html |-> "404: Not Found"]
not_found(r) ==
    /\ handler' = "not_found"
    /\ status' = 404
    /\ body' = NotFoundPage
    /\ UNCHANGED <<users, xbees, jar>>

Serve(h, r) ==
    CASE h = "send"         -> send(r)
      [] h = "add"          -> add(r)
      [] h = "list_authed"  -> list_authed(r)
      [] h = "list_invalid" -> list_invalid(r)
      [] h = "login"        -> login(r)
      [] h = "logout"       -> logout(r)
      [] OTHER              -> not_found(r)

\* ------------------------------------------------------------- requests
\* The login of r was made with correct credentials: the lookup returned
\* the user and the password verifies against the stored hash.
CorrectCredentials(r) ==
    /\ ~r.dbErr
    /\ r.login.user \in DOMAIN users
    /\ bcrypt_verify(r.login.pass, users[r.login.user]) = "OkTrue"

Req(op, c, l, x, m, e) ==
    [op |-> op, client |-> c, jar |-> jar[c], login |-> l, xbee |-> x,
     message |-> m, dbErr |-> e]

Request(r) ==
    /\ req' = r
    /\ Serve(Dispatch(Matching(Method(r.op), Path(r.op)), r.jar), r)
    /\ lastAuth' =
         IF r.op = "login" /\ CorrectCredentials(r)
         THEN [lastAuth EXCEPT ![r.client] = "login"]
         ELSE IF r.op = "logout"
         THEN [lastAuth EXCEPT ![r.client] = "logout"]
         ELSE lastAuth

PostLogin(c, l, e) == Request(Req("login", c, l, NoXbee, NoMessage, e))
GetLogout(c) == Request(Req("logout", c, NoLogin, NoXbee, NoMessage, FALSE))
GetList(c) == Request(Req("list", c, NoLogin, NoXbee, NoMessage, FALSE))
PostAdd(c, x) ==
    /\ Len(xbees) < MaxRows
    /\ Request(Req("add", c, NoLogin, x, NoMessage, FALSE))
PostSend(c, m) == Request(Req("send", c, NoLogin, NoXbee, m, FALSE))

NoResponse == [html |-> ""]

Init ==
    /\ users \in UserTables
    /\ xbees = <<>>
    /\ jar \in [Clients -> {"none", "forged"}]
    /\ req = [op |-> "none", client |-> "c1", jar |-> "none", login |-> NoLogin,
              xbee |-> NoXbee, message |-> NoMessage, dbErr |-> FALSE]
    /\ handler = "none"
    /\ status = 0
    /\ body = NoResponse
    /\ lastAuth = [c \in Clients |-> "none"]

Next ==
    \/ \E c \in Clients, l \in Logins, e \in BOOLEAN : PostLogin(c, l, e)
    \/ \E c \in Clients : GetLogout(c)
    \/ \E c \in Clients : GetList(c)
    \/ \E c \in Clients, x \in Xbees : PostAdd(c, x)
    \/ \E c \in Clients, m \in Messages : PostSend(c, m)

Spec == Init /\ [][Next]_vars

TypeOK ==
    /\ users \in UserTables
    /\ Len(xbees) <= MaxRows
    /\ \A i \in 1..Len(xbees) : xbees[i] \in Xbees
    /\ jar \in [Clients -> JarStates]
    /\ lastAuth \in [Clients -> {"none", "login", "logout"}]
    /\ handler \in {"none", "send", "add", "list_authed", "list_invalid",
                    "login", "logout", "not_found"}
    /\ status \in {0, 200, 404}

\* --------------------------------------------------------------- claims
InvalidCredentials == [error |-> "Invalid login credentials.", success |-> FALSE]
NoSuchUser == [error |-> "No user with that name found.", success |-> FALSE]
DatabaseError == [error |-> "Error getting information from database.", success |-> FALSE]
Success == [success |-> TRUE]
Failure == [success |-> FALSE]

\* C1: a login with correct credentials answers {success:true} and issues
\* the auth cookie, and every later GET /api/list of that client with no
\* logout in between carries the cookie and is served by list_authed with
\* {success:true, nodes:[...]}.
C1_LoginThenList ==
    /\ (req.op = "login" /\ CorrectCredentials(req))
         => /\ handler = "login"
            /\ body = Success
            /\ jar[req.client] = "valid"
    /\ (req.op = "list" /\ lastAuth[req.client] = "login")
         => /\ req.jar = "valid"
            /\ handler = "list_authed"
            /\ body = [nodes |-> info_nodes(xbees), success |-> TRUE]

C1_Witness ==
    /\ req.op = "list"
    /\ lastAuth[req.client] = "login"
    /\ handler = "list_authed"
    /\ Len(body.nodes) > 0

\* C2: logout answers {success:true} whatever cookie the request carried,
\* and every later GET /api/list of that client is served by list_invalid
\* with {success:false} until a login with correct credentials.
C2_LogoutThenList ==
    /\ req.op = "logout"
         => /\ handler = "logout"
            /\ body = Success
            /\ jar[req.client] = "none"
    /\ (req.op = "list" /\ lastAuth[req.client] = "logout")
         => /\ handler = "list_invalid"
            /\ body = Failure

C2_Witness ==
    /\ req.op = "list"
    /\ lastAuth[req.client] = "logout"
    /\ handler = "list_invalid"
    /\ Len(xbees) > 0

\* C3: a GET /api/list that carries no auth cookie gets {success:false}
\* with no nodes field, whatever rows the store holds.
C3_ListWithoutCookie ==
    (req.op = "list" /\ req.jar = "none")
        => /\ handler = "list_invalid"
           /\ body = Failure
           /\ "nodes" \notin DOMAIN body

C3_Witness ==
    /\ req.op = "list"
    /\ req.jar = "none"
    /\ body = Failure
    /\ Len(xbees) > 0

C5_UnknownUser ==
    (req.op = "login" /\ ~req.dbErr /\ req.login.user \notin DOMAIN users)
        => /\ body = NoSuchUser
           /\ jar[req.client] = req.jar

C5_Witness ==
    /\ req.op = "login"
    /\ ~req.dbErr
    /\ req.login.user \notin DOMAIN users
    /\ body = NoSuchUser
    /\ jar[req.client] = "none"

\* C6: a login whose username exists but whose password does not verify
\* (verify gives Ok(false) or Err) answers "Invalid login credentials."
\* and leaves the cookie jar as it was.
C6_WrongPassword ==
    (/\ req.op = "login"
     /\ ~req.dbErr
     /\ req.login.user \in DOMAIN users
     /\ bcrypt_verify(req.login.pass, users[req.login.user]) # "OkTrue")
        => /\ body = InvalidCredentials
           /\ jar[req.client] = req.jar

C6_Witness ==
    /\ req.op = "login"
    /\ ~req.dbErr
    /\ req.login.user \in DOMAIN users
    /\ bcrypt_verify(req.login.pass, users[req.login.user]) = "Err"
    /\ body = InvalidCredentials
    /\ jar[req.client] = "none"

\* C7: a login whose lookup fails with a database error other than
\* not-found answers the generic error and leaves the cookie jar as it
\* was; every login gets exactly one of the four outcomes, each under its
\* own condition.
C7_LoginOutcomes ==
    req.op = "login"
        => /\ req.dbErr => (body = DatabaseError /\ jar[req.client] = req.jar)
           /\ body \in {Success, InvalidCredentials, NoSuchUser, DatabaseError}
           /\ body = Success <=> CorrectCredentials(req)
           /\ body = InvalidCredentials
                <=> (/\ ~req.dbErr
                     /\ req.login.user \in DOMAIN users
                     /\ bcrypt_verify(req.login.pass, users[req.login.user]) # "OkTrue")
           /\ body = NoSuchUser
                <=> (~req.dbErr /\ req.login.user \notin DOMAIN users)
           /\ body = DatabaseError <=> req.dbErr

C7_Witness ==
    /\ req.op = "login"
    /\ req.dbErr
    /\ req.login.user \in DOMAIN users
    /\ bcrypt_verify(req.login.pass, users[req.login.user]) = "OkTrue"
    /\ body = DatabaseError
    /\ jar[req.client] = "none"

\* C8: an authenticated POST /api/add appends a row with the given node
\* id, name and units and answers {success:true}, also when a row with the
\* same node id is in the store already.
C8_AddInserts ==
    [][(req'.op = "add" /\ req'.jar = "valid")
         => /\ handler' = "add"
            /\ body' = Success
            /\ xbees' = Append(xbees, req'.xbee)]_vars

C8_Witness ==
    /\ req.op = "add"
    /\ handler = "add"
    /\ body = Success
    /\ Len(xbees) >= 2
    /\ xbees[Len(xbees)] = req.xbee
    /\ \E i \in 1..(Len(xbees) - 1) : xbees[i].node_id = req.xbee.node_id

\* C9: no request changes the users table, and the sensor-node rows
\* change only by an authenticated add, which appends one row and keeps
\* the rows there were.
C9_Frame ==
    [][/\ users' = users
       /\ xbees' # xbees
            => /\ req'.op = "add"
               /\ req'.jar = "valid"
               /\ Len(xbees') = Len(xbees) + 1
               /\ SubSeq(xbees', 1, Len(xbees)) = xbees]_vars

C9_Witness ==
    /\ req.op = "send"
    /\ handler = "send"
    /\ Len(xbees) > 0
    /\ DOMAIN users # {}

\* C10: a client holds the auth cookie iff the most recent of its logins
\* with correct credentials and its logouts was a login; a failed login
\* and list, add and send leave the client's cookie as the request
\* carried it.
C10_Session ==
    /\ \A c \in Clients : jar[c] = "valid" <=> lastAuth[c] = "login"
    /\ (\/ req.op \in {"list", "add", "send"}
        \/ (req.op = "login" /\ ~CorrectCredentials(req)))
         => jar[req.client] = req.jar

C10_Witness ==
    /\ req.op = "login"
    /\ ~CorrectCredentials(req)
    /\ req.jar = "valid"
    /\ jar[req.client] = "valid"
    /\ lastAuth[req.client] = "login"

====
